---- MODULE Spec2Model ----
(***************************************************************************)
(* A model of serenity's client Context (src/client/context.rs): the       *)
(* facade through which every REST operation is issued.  Each method of    *)
(* Context is one operator computing the method's outcome (the ordered     *)
(* events it performs and the Result it returns) and one action that       *)
(* performs the call.  The http module, the cache (STATE) and the         *)
(* builders are collaborators: the transport's answer is an input of each  *)
(* call.  The methods that take a lock (STATE's mutex, the connection's     *)
(* mutex) are modelled a second time, statement by statement, on several   *)
(* threads next to the event pipeline (SpecLocks).                         *)
(***************************************************************************)
EXTENDS Integers, Sequences, FiniteSets, TLC

(* ------------------------------------------------------------------ *)
(* Bounds of the model                                                 *)
(* ------------------------------------------------------------------ *)
\* Channel ids in use.
NumChannels == 2
\* Roles the remote service lets the model create.
MaxRoles == 1
\* Contents run up to MESSAGE_CODE_LIMIT + MaxOver code points.
MaxOver == 2
\* Distinct failures the transport may answer with.
MaxTransportErr == 1
\* Longest channel list the transport answers get_channels with.
MaxListLen == 2

(* ------------------------------------------------------------------ *)
(* Program constants                                                   *)
(* ------------------------------------------------------------------ *)
\* The platform's maximum number of unicode code points in a message.
MESSAGE_CODE_LIMIT == 2000
\* delete_message_days and the reaction page size are u8.
U8Max == 255

ChannelIds == 1..NumChannels
\* Guild, user and message ids are passed through to the transport as
\* they are; one of each is in use.
GuildIds == {1}
UserIds == {1}
MessageIds == {1}
RoleIds == {1}
U8 == 0..U8Max
\* The u8 values around the limits the code compares against; Spec draws
\* u8 arguments from these, SpecU8 from all of U8.
DaysSample == {0, 7, 8, U8Max}
LimitSample == {0, 50, 100, 101, U8Max}

\* Option<T>: None is the empty sequence, Some(x) the one-element sequence.
None == <<>>
Some(x) == <<x>>
IsSome(o) == Len(o) = 1
Unwrap(o) == o[1]

\* The threads that call into a Context (event handlers run on their own
\* threads, each with a clone of the Context), and the event pipeline.
Threads == {1, 2}
Pipeline == 0

\* The Connection's presence.
Presence(game, status, afk) == [game |-> game, status |-> status, afk |-> afk]

\* LoginType
LoginTypes == {"Bot", "User"}

\* ChannelType
ChannelTypes == {"Group", "Private", "Text", "Voice"}

(* ------------------------------------------------------------------ *)
(* Results and events                                                  *)
(* ------------------------------------------------------------------ *)
\* Result<T>: Ok(value), Err(Error::Client(ClientError::...)) or the
\* transport's own error, which carries the transport's error code.
Ok(v) == [tag |-> "Ok", val |-> v]
ClientErr(name, data) == [tag |-> "Err", source |-> "Client", err |-> name, data |-> Some(data)]
ClientErr0(name) == [tag |-> "Err", source |-> "Client", err |-> name, data |-> None]
HttpErr(code) == [tag |-> "Err", source |-> "Http", err |-> "Transport", data |-> Some(code)]

IsOk(r) == r.tag = "Ok"
IsErr(r) == r.tag = "Err"
IsClientErr(r, name) == r.tag = "Err" /\ r.source = "Client" /\ r.err = name
IsHttpErr(r) == r.tag = "Err" /\ r.source = "Http"

\* The transport's possible answers to one call: success with one of the
\* decoded entities, or a failure carrying the transport's error code.
Answers(entities) ==
    {Ok(e) : e \in entities} \cup {HttpErr(code) : code \in 1..MaxTransportErr}
Unit == Answers({"unit"})

\* What an operation does, in order.
\* An http event carries the endpoint, its arguments and the transport's
\* answer; the other events carry no answer.
Http(endpoint, args, answer) ==
    [kind |-> "http", what |-> endpoint, args |-> args, answer |-> answer]
CacheLookup(fn, key) == [kind |-> "cache", what |-> fn, args |-> key, answer |-> None]
Seed(builder, fields) == [kind |-> "seed", what |-> builder, args |-> fields, answer |-> None]
Transform(builder) == [kind |-> "transform", what |-> builder, args |-> <<>>, answer |-> None]
Build(builder) == [kind |-> "build", what |-> builder, args |-> <<>>, answer |-> None]

Outcome(evs, res) == [events |-> evs, result |-> res]

RECURSIVE CountKind(_, _)
CountKind(evs, k) ==
    IF evs = <<>> THEN 0
    ELSE (IF Head(evs).kind = k THEN 1 ELSE 0) + CountKind(Tail(evs), k)

RECURSIVE CountHttp(_, _)
CountHttp(evs, endpoint) ==
    IF evs = <<>> THEN 0
    ELSE (IF Head(evs).kind = "http" /\ Head(evs).what = endpoint THEN 1 ELSE 0)
         + CountHttp(Tail(evs), endpoint)

HttpCalls(evs) == CountKind(evs, "http")

(* ------------------------------------------------------------------ *)
(* State                                                               *)
(* ------------------------------------------------------------------ *)
VARIABLES
    channel_id,     \* Context.channel_id : Option<ChannelId>
    login_type,     \* Context.login_type : LoginType
    state_enabled,  \* whether the "state" feature is compiled in
    state,          \* STATE: the cache, written by the event pipeline only
    remote_roles,   \* the roles that exist on the remote service
    pc,             \* "idle", or "returned" once a call has come back
    op,             \* the call in progress: its name and arguments
    events,         \* what that call did, in order
    result,         \* the Result it returned
    last,           \* the caller's note of its previous call, if it was a
                    \* get_channel and the cache has not been updated since
    stack,          \* per thread: the Context methods it is inside of
    panicked,       \* the threads that have panicked
    cache_lock,     \* who holds STATE's mutex
    poisoned,       \* whether STATE's mutex is poisoned
    conn_lock,      \* who holds Context.connection's mutex
    presence        \* the Connection's presence: game, status, afk

vars ==
    <<channel_id, login_type, state_enabled, state, remote_roles, pc, op, events, result,
      last, stack, panicked, cache_lock, poisoned, conn_lock, presence>>
context == <<channel_id, login_type, state_enabled>>
\* What the threads and the two mutexes are doing.
threads == <<stack, panicked, cache_lock, poisoned, conn_lock, presence>>
\* One caller making one call at a time.
caller == <<remote_roles, pc, op, events, result, last>>

NoOp == [name |-> "none"]
NoResult == [tag |-> "none"]

(* ------------------------------------------------------------------ *)
(* Model entities (the model module)                                   *)
(* ------------------------------------------------------------------ *)
\* Channel::Public(PublicChannel), Channel::Private(PrivateChannel) and
\* Channel::Group(Group).  Names, topics and the like are opaque values.
PublicChannel(id, kind) ==
    [variant |-> "Public", id |-> id, kind |-> kind, name |-> 10 + id,
     position |-> 20 + id, topic |-> 30 + id, bitrate |-> 40 + id,
     user_limit |-> 50 + id]
PrivateChannel(id, kind) == [variant |-> "Private", id |-> id, kind |-> kind]
Group(id) == [variant |-> "Group", id |-> id]

\* Every channel the cache or the transport may hold under an id.
ChannelsOf(id) ==
    {PublicChannel(id, k) : k \in ChannelTypes}
        \cup {PrivateChannel(id, "Private")} \cup {Group(id)}

Member(guild_id, user_id) == [guild |-> guild_id, user |-> user_id]
Role(guild_id, role_id) == [guild |-> guild_id, id |-> role_id, name |-> 60 + role_id]

\* A cached guild: its channels, members and roles, each keyed by id.
LiveGuild(id, cs, us, rs) ==
    [id |-> id,
     channels |-> [c \in cs |-> PublicChannel(c, "Text")],
     members |-> [u \in us |-> Member(id, u)],
     roles |-> [r \in rs |-> Role(id, r)]]
GuildsOf(id) ==
    {LiveGuild(id, cs, us, us) : cs \in {{}, ChannelIds}, us \in {{}, {1}}}

\* A message's content: its number of unicode code points and its length
\* in bytes (a multi-byte character is one code point).
Content(chars, bytes) == [chars |-> chars, bytes |-> bytes]
Contents ==
    {Content(n, n) : n \in {0, MESSAGE_CODE_LIMIT - 1} \cup
                            (MESSAGE_CODE_LIMIT .. MESSAGE_CODE_LIMIT + MaxOver)}
        \cup {Content(MESSAGE_CODE_LIMIT, MESSAGE_CODE_LIMIT + 1)}

\* serde_json::Value
String(s) == [type |-> "String", v |-> s]
Bool(b) == [type |-> "Bool", v |-> b]
Object(m) == [type |-> "Object", v |-> m]

\* Message::overflow_length: the number of code points over the limit.
overflow_length(content) ==
    LET diff == content.chars - MESSAGE_CODE_LIMIT
    IN  IF diff > 0 THEN Some(diff) ELSE None

(* ------------------------------------------------------------------ *)
(* The cache (STATE) and its point lookups                             *)
(* ------------------------------------------------------------------ *)
EmptyState ==
    [channels |-> [c \in ChannelIds |-> None], guilds |-> [g \in GuildIds |-> None]]

find_channel(st, id) == st.channels[id]
find_guild(st, id) == st.guilds[id]
find_member(st, guild_id, user_id) ==
    LET g == st.guilds[guild_id]
    IN  IF IsSome(g) /\ user_id \in DOMAIN Unwrap(g).members
        THEN Some(Unwrap(g).members[user_id])
        ELSE None
find_role(st, guild_id, role_id) ==
    LET g == st.guilds[guild_id]
    IN  IF IsSome(g) /\ role_id \in DOMAIN Unwrap(g).roles
        THEN Some(Unwrap(g).roles[role_id])
        ELSE None

\* The cache contents the event pipeline leaves behind.  Every operation
\* makes one point lookup, so one cached entity at a time shows each case:
\* nothing cached, one channel (of any kind), or one guild.
CacheSnapshots ==
    {EmptyState}
        \cup UNION {{[EmptyState EXCEPT !.channels[c] = Some(ch)] : ch \in ChannelsOf(c)} :
                       c \in ChannelIds}
        \cup UNION {{[EmptyState EXCEPT !.guilds[g] = Some(x)] : x \in GuildsOf(g)} :
                       g \in GuildIds}

(* ------------------------------------------------------------------ *)
(* Builders (utils::builder)                                           *)
(* ------------------------------------------------------------------ *)
\* A builder's field map after the caller's closure f: the fields f sets
\* replace the seeded ones, every other seeded field is kept.
Apply(f, map) ==
    [k \in (DOMAIN f) \cup (DOMAIN map) |-> IF k \in DOMAIN f THEN f[k] ELSE map[k]]

NoFields == [k \in {} |-> 0]

\* CreateMessage::default() and the closures a caller may pass: one that
\* sets nothing, or |m| m.content(c).
CreateMessage_default == "tts" :> Bool(FALSE)
CreateMessageClosures == {None} \cup {Some(c) : c \in Contents}
ApplyCreateMessage(f, map) ==
    IF IsSome(f) THEN Apply("content" :> String(Unwrap(f)), map) ELSE map

\* CreateEmbed::default() and a caller's closure on it.
CreateEmbed_default == NoFields
CreateEmbedClosures == {NoFields, "title" :> 1}

\* EditRole::default(), EditChannel closures, EditRole closures.
EditRole_default == ("hoist" :> 0) @@ ("mentionable" :> 0) @@ ("name" :> 0)
EditRoleClosures == {NoFields, "name" :> 7}
EditChannelClosures == {NoFields, "name" :> 8, "topic" :> 9}

\* A call of a Context method: the whole method runs, and its events and
\* Result are left for the caller.
Call(name, args, out) ==
    /\ pc = "idle"
    /\ pc' = "returned"
    /\ op' = [name |-> name, args |-> args]
    /\ events' = out.events
    /\ result' = out.result
    /\ UNCHANGED <<last, threads>>

(* ------------------------------------------------------------------ *)
(* Context::ban                                                        *)
(* ------------------------------------------------------------------ *)
\* ban with the bound compared one too low: 7 days are refused.
ban_low(guild_id, user_id, delete_message_days, resp) ==
    IF delete_message_days >= 7
    THEN Outcome(<<>>, ClientErr("DeleteMessageDaysAmount", delete_message_days))
    ELSE Outcome(<<Http("ban_user", [guild |-> guild_id, user |-> user_id,
                                     days |-> delete_message_days], resp)>>,
                 resp)

ban(guild_id, user_id, delete_message_days, resp) ==
    IF delete_message_days > 7
    THEN Outcome(<<>>, ClientErr("DeleteMessageDaysAmount", delete_message_days))
    ELSE Outcome(<<Http("ban_user", [guild |-> guild_id, user |-> user_id,
                                     days |-> delete_message_days], resp)>>,
                 resp)

(* ------------------------------------------------------------------ *)
(* Privilege-gated operations                                          *)
(* ------------------------------------------------------------------ *)
\* ack refusing bots instead of users.
ack_bot(channel, message_id, resp) ==
    IF login_type = "Bot"
    THEN Outcome(<<>>, ClientErr0("InvalidOperationAsBot"))
    ELSE Outcome(<<Http("ack_message", [channel |-> channel, message |-> message_id], resp)>>,
                 resp)

ack(channel, message_id, resp) ==
    IF login_type = "User"
    THEN Outcome(<<>>, ClientErr0("InvalidOperationAsUser"))
    ELSE Outcome(<<Http("ack_message", [channel |-> channel, message |-> message_id], resp)>>,
                 resp)

\* delete_messages with the privilege test after the transport call.
delete_messages_late(channel, message_ids, resp) ==
    Outcome(<<Build("ObjectBuilder"),
              Http("delete_messages",
                   [channel |-> channel, body |-> ("messages" :> message_ids)], resp)>>,
            IF login_type = "User" THEN ClientErr0("InvalidOperationAsUser") ELSE resp)

delete_messages(channel, message_ids, resp) ==
    IF login_type = "User"
    THEN Outcome(<<>>, ClientErr0("InvalidOperationAsUser"))
    ELSE Outcome(<<Build("ObjectBuilder"),
                   Http("delete_messages",
                        [channel |-> channel, body |-> ("messages" :> message_ids)], resp)>>,
                 resp)

get_message(channel, message_id, resp) ==
    IF login_type = "User"
    THEN Outcome(<<>>, ClientErr0("InvalidOperationAsUser"))
    ELSE Outcome(<<Http("get_message", [channel |-> channel, message |-> message_id], resp)>>,
                 resp)

(* ------------------------------------------------------------------ *)
(* Operations that send message content                                *)
(* ------------------------------------------------------------------ *)
\* send_message without the length check.
send_message_unchecked(channel, f, resp) ==
    LET map == ApplyCreateMessage(f, CreateMessage_default)
    IN  Outcome(<<Transform("CreateMessage"),
                  Http("send_message", [channel |-> channel, body |-> map], resp)>>,
                resp)

send_message(channel, f, resp) ==
    LET map == ApplyCreateMessage(f, CreateMessage_default)
        over == IF "content" \in DOMAIN map /\ map["content"].type = "String"
                THEN overflow_length(map["content"].v)
                ELSE None
    IN  IF IsSome(over)
        THEN Outcome(<<Transform("CreateMessage")>>,
                     ClientErr("MessageTooLong", Unwrap(over)))
        ELSE Outcome(<<Transform("CreateMessage"),
                       Http("send_message", [channel |-> channel, body |-> map], resp)>>,
                     resp)

send_file(channel, content, filename, resp) ==
    LET over == overflow_length(content)
    IN  IF IsSome(over)
        THEN Outcome(<<>>, ClientErr("MessageTooLong", Unwrap(over)))
        ELSE Outcome(<<Http("send_file", [channel |-> channel,
                                          body |-> ("content" :> String(content)),
                                          filename |-> filename], resp)>>,
                     resp)

dm(target_id, content, resp) == send_message(target_id, Some(content), resp)

\* say handing its content to the transport itself, skipping send_message.
say_direct(content, resp) ==
    IF IsSome(channel_id)
    THEN Outcome(<<Transform("CreateMessage"),
                   Http("send_message",
                        [channel |-> Unwrap(channel_id),
                         body |-> ApplyCreateMessage(Some(content), CreateMessage_default)],
                        resp)>>,
                 resp)
    ELSE Outcome(<<>>, ClientErr0("NoChannelId"))

say(content, resp) ==
    IF IsSome(channel_id)
    THEN send_message(Unwrap(channel_id), Some(content), resp)
    ELSE Outcome(<<>>, ClientErr0("NoChannelId"))

edit_message(channel, message_id, text, f, resp) ==
    LET map == ("content" :> String(text))
                   @@ ("embed" :> Object(Apply(f, CreateEmbed_default)))
    IN  Outcome(<<Transform("CreateEmbed"), Build("ObjectBuilder"),
                  Http("edit_message",
                       [channel |-> channel, message |-> message_id, body |-> map], resp)>>,
                resp)

(* ------------------------------------------------------------------ *)
(* Context::get_reaction_users                                         *)
(* ------------------------------------------------------------------ *)
\* get_reaction_users passing the supplied limit through as it is.
get_reaction_users_unclamped(channel, message_id, reaction_type, limit, after, resp) ==
    LET lim == IF IsSome(limit) THEN Unwrap(limit) ELSE 50
    IN  Outcome(<<Http("get_reaction_users",
                       [channel |-> channel, message |-> message_id,
                        reaction |-> reaction_type, limit |-> lim, after |-> after], resp)>>,
                resp)

get_reaction_users(channel, message_id, reaction_type, limit, after, resp) ==
    LET lim == IF IsSome(limit)
               THEN (IF Unwrap(limit) > 100 THEN 100 ELSE Unwrap(limit))
               ELSE 50
    IN  Outcome(<<Http("get_reaction_users",
                       [channel |-> channel, message |-> message_id,
                        reaction |-> reaction_type, limit |-> lim, after |-> after], resp)>>,
                resp)

(* ------------------------------------------------------------------ *)
(* Cache-first reads                                                   *)
(* ------------------------------------------------------------------ *)
\* get_channel that never consults the cache.
get_channel_uncached(channel, resp) ==
    Outcome(<<Http("get_channel", [channel |-> channel], resp)>>, resp)

\* feature_state_enabled!: the lookup is compiled in with the "state"
\* feature only.  resp is the transport's answer to http::get_channel.
get_channel(channel, resp) ==
    LET found == IF state_enabled THEN find_channel(state, channel) ELSE None
        looked == IF state_enabled
                  THEN <<CacheLookup("find_channel", [key |-> channel, hit |-> IsSome(found)])>>
                  ELSE <<>>
    IN  IF IsSome(found)
        THEN Outcome(looked, Ok(Unwrap(found)))
        ELSE Outcome(looked \o <<Http("get_channel", [channel |-> channel], resp)>>, resp)

\* The HashMap built from the transport's Vec<PublicChannel>: a later
\* channel replaces an earlier one of the same id.
RECURSIVE InsertAll(_, _)
InsertAll(channels, list) ==
    IF list = <<>> THEN channels
    ELSE InsertAll(Apply(Head(list).id :> Head(list), channels), Tail(list))

\* get_channels asking the transport a second time when the first call
\* fails.
get_channels_retry(guild_id, resp) ==
    LET found == IF state_enabled THEN find_guild(state, guild_id) ELSE None
        looked == IF state_enabled
                  THEN <<CacheLookup("find_guild", [key |-> guild_id, hit |-> IsSome(found)])>>
                  ELSE <<>>
        call == <<Http("get_channels", [guild |-> guild_id], resp)>>
    IN  IF IsSome(found)
        THEN Outcome(looked, Ok(Unwrap(found).channels))
        ELSE IF IsErr(resp) THEN Outcome(looked \o call \o call, resp)
        ELSE Outcome(looked \o call, Ok(InsertAll(NoFields, resp.val)))

get_channels(guild_id, resp) ==
    LET found == IF state_enabled THEN find_guild(state, guild_id) ELSE None
        looked == IF state_enabled
                  THEN <<CacheLookup("find_guild", [key |-> guild_id, hit |-> IsSome(found)])>>
                  ELSE <<>>
    IN  IF IsSome(found)
        THEN Outcome(looked, Ok(Unwrap(found).channels))
        ELSE Outcome(looked \o <<Http("get_channels", [guild |-> guild_id], resp)>>,
                     IF IsOk(resp) THEN Ok(InsertAll(NoFields, resp.val)) ELSE resp)

get_member(guild_id, user_id, resp) ==
    LET found == IF state_enabled THEN find_member(state, guild_id, user_id) ELSE None
        looked == IF state_enabled
                  THEN <<CacheLookup("find_member",
                                     [key |-> <<guild_id, user_id>>, hit |-> IsSome(found)])>>
                  ELSE <<>>
    IN  IF IsSome(found)
        THEN Outcome(looked, Ok(Unwrap(found)))
        ELSE Outcome(looked \o <<Http("get_member", [guild |-> guild_id, user |-> user_id], resp)>>,
                     resp)

(* ------------------------------------------------------------------ *)
(* Context::create_role                                                *)
(* ------------------------------------------------------------------ *)
\* The remote service: a created role gets the next free id and is bare
\* (it has the service's default attributes) until an edit succeeds.
RemoteRole(guild_id, role_id, bare) == [guild |-> guild_id, id |-> role_id, bare |-> bare]

\* create_role that drops the edit's failure and returns the created role.
create_role_swallow(guild_id, f, created, edited) ==
    LET first == <<Http("create_role", [guild |-> guild_id], created)>>
        role == created.val
        map == Apply(f, EditRole_default)
    IN  IF IsErr(created)
        THEN [events |-> first, result |-> created, remote |-> remote_roles]
        ELSE [events |-> first \o
                         <<Transform("EditRole"), Build("EditRole"),
                           Http("edit_role",
                                [guild |-> guild_id, role |-> role.id, body |-> map], edited)>>,
              result |-> IF IsErr(edited) THEN created ELSE edited,
              remote |-> Append(remote_roles,
                                RemoteRole(guild_id, role.id, IsErr(edited)))]

\* created answers http::create_role (the new role, under the next free
\* id), edited answers http::edit_role.  The third field is the remote
\* service's roles after the call.
create_role(guild_id, f, created, edited) ==
    LET first == <<Http("create_role", [guild |-> guild_id], created)>>
        role == created.val
        map == Apply(f, EditRole_default)
    IN  IF IsErr(created)
        THEN [events |-> first, result |-> created, remote |-> remote_roles]
        ELSE [events |-> first \o
                         <<Transform("EditRole"), Build("EditRole"),
                           Http("edit_role",
                                [guild |-> guild_id, role |-> role.id, body |-> map], edited)>>,
              result |-> edited,
              remote |-> Append(remote_roles,
                                RemoteRole(guild_id, role.id, IsErr(edited)))]

(* ------------------------------------------------------------------ *)
(* Context::edit_channel                                               *)
(* ------------------------------------------------------------------ *)
\* edit_channel without the arm for the other guild channel kinds: every
\* guild channel that is not a text channel is edited as a voice channel.
edit_channel_voice(channel, f, got, resp) ==
    LET read == get_channel(channel, got)
        c == read.result.val
        seed == ("name" :> c.name) @@ ("position" :> c.position)
        map == IF c.kind = "Text"
               THEN seed @@ ("topic" :> c.topic)
               ELSE seed @@ ("bitrate" :> c.bitrate) @@ ("user_limit" :> c.user_limit)
        edited == Apply(f, map)
    IN  IF IsErr(read.result) THEN read
        ELSE IF c.variant = "Private"
        THEN Outcome(read.events, ClientErr("UnexpectedChannelType", c.kind))
        ELSE IF c.variant = "Group"
        THEN Outcome(read.events, ClientErr("UnexpectedChannelType", "Group"))
        ELSE Outcome(read.events \o
                         <<Seed("ObjectBuilder", map), Transform("EditChannel"),
                           Build("EditChannel"),
                           Http("edit_channel", [channel |-> channel, body |-> edited], resp)>>,
                     resp)

\* edit_channel handing the caller's closure an empty builder.
edit_channel_unseeded(channel, f, got, resp) ==
    LET read == get_channel(channel, got)
        c == read.result.val
    IN  IF IsErr(read.result) THEN read
        ELSE IF c.variant = "Private"
        THEN Outcome(read.events, ClientErr("UnexpectedChannelType", c.kind))
        ELSE IF c.variant = "Group"
        THEN Outcome(read.events, ClientErr("UnexpectedChannelType", "Group"))
        ELSE IF c.kind \notin {"Text", "Voice"}
        THEN Outcome(read.events \o <<Seed("ObjectBuilder", NoFields)>>,
                     ClientErr("UnexpectedChannelType", c.kind))
        ELSE Outcome(read.events \o
                         <<Seed("ObjectBuilder", NoFields), Transform("EditChannel"),
                           Build("EditChannel"),
                           Http("edit_channel",
                                [channel |-> channel, body |-> Apply(f, NoFields)], resp)>>,
                     resp)

\* got answers the http::get_channel a cache miss leads to, resp answers
\* http::edit_channel.
edit_channel(channel, f, got, resp) ==
    LET read == get_channel(channel, got)
        c == read.result.val
        seed == ("name" :> c.name) @@ ("position" :> c.position)
        map == IF c.kind = "Text"
               THEN seed @@ ("topic" :> c.topic)
               ELSE seed @@ ("bitrate" :> c.bitrate) @@ ("user_limit" :> c.user_limit)
        edited == Apply(f, map)
    IN  IF IsErr(read.result) THEN read
        ELSE IF c.variant = "Private"
        THEN Outcome(read.events, ClientErr("UnexpectedChannelType", c.kind))
        ELSE IF c.variant = "Group"
        THEN Outcome(read.events, ClientErr("UnexpectedChannelType", "Group"))
        ELSE IF c.kind \notin {"Text", "Voice"}
        THEN Outcome(read.events \o <<Seed("ObjectBuilder", seed)>>,
                     ClientErr("UnexpectedChannelType", c.kind))
        ELSE Outcome(read.events \o
                         <<Seed("ObjectBuilder", map), Transform("EditChannel"),
                           Build("EditChannel"),
                           Http("edit_channel", [channel |-> channel, body |-> edited], resp)>>,
                     resp)

(* ------------------------------------------------------------------ *)
(* Context::edit_role                                                  *)
(* ------------------------------------------------------------------ *)
\* EditRole::new(role): the builder seeded with the role's attributes.
EditRole_new(role) ==
    ("hoist" :> 0) @@ ("mentionable" :> 0) @@ ("name" :> role.name)

\* edit_role starting from the default builder when the role is not cached.
edit_role_default(guild_id, role_id, f, resp) ==
    LET found == IF state_enabled THEN find_role(state, guild_id, role_id) ELSE None
        looked == IF state_enabled
                  THEN <<CacheLookup("find_role",
                                     [key |-> <<guild_id, role_id>>, hit |-> IsSome(found)])>>
                  ELSE <<>>
        seed == IF IsSome(found) THEN EditRole_new(Unwrap(found)) ELSE EditRole_default
        seeded == IF IsSome(found) THEN <<Seed("EditRole", seed)>> ELSE <<>>
    IN  Outcome(looked \o seeded \o
                    <<Transform("EditRole"), Build("EditRole"),
                      Http("edit_role",
                           [guild |-> guild_id, role |-> role_id, body |-> Apply(f, seed)],
                           resp)>>,
                resp)

\* feature_state!: with the "state" feature the role is looked up in the
\* cache and the builder starts from it; without the feature the builder
\* starts from EditRole::default().  resp answers http::edit_role.
edit_role(guild_id, role_id, f, resp) ==
    LET found == IF state_enabled THEN find_role(state, guild_id, role_id) ELSE None
        looked == IF state_enabled
                  THEN <<CacheLookup("find_role",
                                     [key |-> <<guild_id, role_id>>, hit |-> IsSome(found)])>>
                  ELSE <<>>
        seed == IF IsSome(found) THEN EditRole_new(Unwrap(found)) ELSE EditRole_default
        seeded == IF IsSome(found) THEN <<Seed("EditRole", seed)>> ELSE <<>>
    IN  IF state_enabled /\ ~IsSome(found)
        THEN Outcome(looked, ClientErr0("RecordNotFound"))
        ELSE Outcome(looked \o seeded \o
                         <<Transform("EditRole"), Build("EditRole"),
                           Http("edit_role",
                                [guild |-> guild_id, role |-> role_id, body |-> Apply(f, seed)],
                                resp)>>,
                     resp)

(* ------------------------------------------------------------------ *)
(* Context::edit_profile                                               *)
(* ------------------------------------------------------------------ *)
\* CurrentUser: avatar and name are opaque, email is an Option.
CurrentUser(email) == [avatar |-> 71, name |-> 72, email |-> email]
CurrentUsers == {CurrentUser(None), CurrentUser(Some(73))}
EditProfileClosures == {NoFields, "username" :> 74, "email" :> 75}

\* edit_profile that still edits, from an empty builder, when the read of
\* the current user has failed.
edit_profile_blind(f, got, resp) ==
    LET read == <<Http("get_current_user", <<>>, got)>>
        user == got.val
        base == IF IsOk(got)
                THEN ("avatar" :> user.avatar) @@ ("username" :> user.name)
                ELSE NoFields
        map == IF IsOk(got) /\ IsSome(user.email)
               THEN base @@ ("email" :> Unwrap(user.email))
               ELSE base
    IN  Outcome(read \o <<Seed("ObjectBuilder", map), Transform("EditProfile"),
                          Build("EditProfile"),
                          Http("edit_profile", [body |-> Apply(f, map)], resp)>>,
                resp)

\* got answers http::get_current_user, resp answers http::edit_profile.
edit_profile(f, got, resp) ==
    LET read == <<Http("get_current_user", <<>>, got)>>
        user == got.val
        base == ("avatar" :> user.avatar) @@ ("username" :> user.name)
        map == IF IsSome(user.email) THEN base @@ ("email" :> Unwrap(user.email)) ELSE base
    IN  IF IsErr(got) THEN Outcome(read, got)
        ELSE Outcome(read \o <<Seed("ObjectBuilder", map), Transform("EditProfile"),
                               Build("EditProfile"),
                               Http("edit_profile", [body |-> Apply(f, map)], resp)>>,
                     resp)

(* ------------------------------------------------------------------ *)
(* Context::get_messages                                               *)
(* ------------------------------------------------------------------ *)
\* GetMessages::default() is the empty map; a caller's closure sets any of
\* limit, after, around and before.
GetMessages_default == NoFields
GetMessagesSet ==
    ("limit" :> 10) @@ ("after" :> 81) @@ ("around" :> 82) @@ ("before" :> 83)
GetMessagesClosures ==
    {[k \in ks |-> GetMessagesSet[k]] : ks \in SUBSET (DOMAIN GetMessagesSet)}
\* The closure that sets nothing and the one that sets every field; Spec
\* draws closures from these, SpecQuery from all of GetMessagesClosures.
GetMessagesSample == {GetMessages_default, GetMessagesSet}

\* One "key=value" of the query string.
Param(key, value) == [key |-> key, value |-> value]
\* push_str of "&key=value" when the map holds the key.
PushIfSet(query, map, key) ==
    IF key \in DOMAIN map THEN Append(query, Param(key, map[key])) ELSE query

\* get_messages appending before ahead of around.
get_messages_swapped(channel, f, resp) ==
    LET map == Apply(f, GetMessages_default)
        limit == IF "limit" \in DOMAIN map THEN map["limit"] ELSE 50
        query == PushIfSet(PushIfSet(PushIfSet(<<Param("limit", limit)>>,
                                               map, "after"), map, "before"), map, "around")
    IN  Outcome(<<Transform("GetMessages"),
                  Http("get_messages", [channel |-> channel, query |-> query], resp)>>,
                resp)

\* The query is "?limit=.." followed by "&after=..", "&around=.." and
\* "&before=.." for the keys the map holds; it is modelled as the sequence
\* of its parameters.
get_messages(channel, f, resp) ==
    LET map == Apply(f, GetMessages_default)
        limit == IF "limit" \in DOMAIN map THEN map["limit"] ELSE 50
        query == PushIfSet(PushIfSet(PushIfSet(<<Param("limit", limit)>>,
                                               map, "after"), map, "around"), map, "before")
    IN  Outcome(<<Transform("GetMessages"),
                  Http("get_messages", [channel |-> channel, query |-> query], resp)>>,
                resp)

(* ------------------------------------------------------------------ *)
(* The calls                                                           *)
(* ------------------------------------------------------------------ *)
Ack ==
    \E c \in ChannelIds, m \in MessageIds, resp \in Unit :
        /\ Call("ack", [channel |-> c, message |-> m], ack(c, m, resp))
        /\ UNCHANGED <<context, state, remote_roles>>

\* ban with delete_message_days drawn from D.
BanWith(D) ==
    \E g \in GuildIds, u \in UserIds, days \in D, resp \in Unit :
        /\ Call("ban", [guild |-> g, user |-> u, days |-> days], ban(g, u, days, resp))
        /\ UNCHANGED <<context, state, remote_roles>>

Ban == BanWith(DaysSample)

CreateRole ==
    \E g \in GuildIds, f \in EditRoleClosures, edited \in Answers({"Role"}) :
        \E created \in Answers({Role(g, Len(remote_roles) + 1)}) :
            /\ Len(remote_roles) < MaxRoles
            /\ LET out == create_role(g, f, created, edited)
               IN  /\ Call("create_role", [guild |-> g, f |-> f], out)
                   /\ remote_roles' = out.remote
            /\ UNCHANGED <<context, state>>

DeleteMessages ==
    \E c \in ChannelIds, ids \in SUBSET MessageIds, resp \in Unit :
        /\ Call("delete_messages", [channel |-> c, messages |-> ids],
                delete_messages(c, ids, resp))
        /\ UNCHANGED <<context, state, remote_roles>>

Dm ==
    \E c \in ChannelIds, content \in Contents, resp \in Answers({"Message"}) :
        /\ Call("dm", [channel |-> c, content |-> content], dm(c, content, resp))
        /\ UNCHANGED <<context, state, remote_roles>>

EditChannel ==
    \E c \in ChannelIds, f \in EditChannelClosures, resp \in Answers({"PublicChannel"}) :
        \E got \in Answers(ChannelsOf(c)) :
            /\ Call("edit_channel", [channel |-> c, f |-> f], edit_channel(c, f, got, resp))
            /\ UNCHANGED <<context, state, remote_roles>>

EditMessage ==
    \E c \in ChannelIds, m \in MessageIds, text \in Contents,
       f \in CreateEmbedClosures, resp \in Answers({"Message"}) :
        /\ Call("edit_message", [channel |-> c, message |-> m, text |-> text, f |-> f],
                edit_message(c, m, text, f, resp))
        /\ UNCHANGED <<context, state, remote_roles>>

\* get_channel storing what the transport answered in the cache.
GetChannel_caching ==
    \E c \in ChannelIds :
        \E resp \in Answers(ChannelsOf(c)) :
            LET out == get_channel(c, resp)
            IN  /\ Call("get_channel", [channel |-> c], out)
                /\ state' = IF state_enabled /\ HttpCalls(out.events) = 1 /\ IsOk(out.result)
                            THEN [state EXCEPT !.channels[c] = Some(out.result.val)]
                            ELSE state
                /\ UNCHANGED <<context, remote_roles>>

GetChannel ==
    \E c \in ChannelIds :
        \E resp \in Answers(ChannelsOf(c)) :
            /\ Call("get_channel", [channel |-> c], get_channel(c, resp))
            /\ UNCHANGED <<context, state, remote_roles>>

\* The Vec<PublicChannel> the transport may answer http::get_channels
\* with: any channels in any order, the same id possibly twice.
ChannelLists ==
    UNION {[1..n -> {PublicChannel(c, "Text") : c \in ChannelIds}
                        \cup {PublicChannel(1, "Voice")}] :
              n \in 0..MaxListLen}

GetChannels ==
    \E g \in GuildIds, resp \in Answers(ChannelLists) :
        /\ Call("get_channels", [guild |-> g], get_channels(g, resp))
        /\ UNCHANGED <<context, state, remote_roles>>

GetMember ==
    \E g \in GuildIds, u \in UserIds :
        \E resp \in Answers({Member(g, u)}) :
            /\ Call("get_member", [guild |-> g, user |-> u], get_member(g, u, resp))
            /\ UNCHANGED <<context, state, remote_roles>>

GetMessage ==
    \E c \in ChannelIds, m \in MessageIds, resp \in Answers({"Message"}) :
        /\ Call("get_message", [channel |-> c, message |-> m], get_message(c, m, resp))
        /\ UNCHANGED <<context, state, remote_roles>>

EditProfile ==
    \E f \in EditProfileClosures, got \in Answers(CurrentUsers),
       resp \in Answers({"CurrentUser"}) :
        /\ Call("edit_profile", [f |-> f], edit_profile(f, got, resp))
        /\ UNCHANGED <<context, state, remote_roles>>

EditRole ==
    \E g \in GuildIds, r \in RoleIds, f \in EditRoleClosures, resp \in Answers({"Role"}) :
        /\ Call("edit_role", [guild |-> g, role |-> r, f |-> f], edit_role(g, r, f, resp))
        /\ UNCHANGED <<context, state, remote_roles>>

\* get_messages with the caller's closure drawn from F.
GetMessagesWith(F) ==
    \E c \in ChannelIds, f \in F, resp \in Answers({"Messages"}) :
        /\ Call("get_messages", [channel |-> c, f |-> f], get_messages(c, f, resp))
        /\ UNCHANGED <<context, state, remote_roles>>

GetMessages == GetMessagesWith(GetMessagesSample)

\* get_reaction_users with a supplied limit drawn from L.
GetReactionUsersWith(L) ==
    \E c \in ChannelIds, m \in MessageIds, resp \in Answers({"Users"}),
       limit \in {None} \cup {Some(x) : x \in L},
       after \in {None} \cup {Some(u) : u \in UserIds} :
        /\ Call("get_reaction_users",
                [channel |-> c, message |-> m, limit |-> limit, after |-> after],
                get_reaction_users(c, m, "emoji", limit, after, resp))
        /\ UNCHANGED <<context, state, remote_roles>>

GetReactionUsers == GetReactionUsersWith(LimitSample)

Say ==
    \E content \in Contents, resp \in Answers({"Message"}) :
        /\ Call("say", [content |-> content], say(content, resp))
        /\ UNCHANGED <<context, state, remote_roles>>

SendFile ==
    \E c \in ChannelIds, content \in Contents, resp \in Answers({"Message"}) :
        /\ Call("send_file", [channel |-> c, content |-> content],
                send_file(c, content, "file", resp))
        /\ UNCHANGED <<context, state, remote_roles>>

SendMessage ==
    \E c \in ChannelIds, f \in CreateMessageClosures, resp \in Answers({"Message"}) :
        /\ Call("send_message", [channel |-> c, f |-> f], send_message(c, f, resp))
        /\ UNCHANGED <<context, state, remote_roles>>

\* The caller takes the Result; the Context is ready for the next call.
Return ==
    /\ pc = "returned"
    /\ pc' = "idle"
    /\ op' = NoOp
    /\ events' = <<>>
    /\ result' = NoResult
    /\ UNCHANGED <<context, state, remote_roles, last, threads>>

\* The same, the caller noting a get_channel it has just made: the
\* channel asked for, how many transport calls the call made, and whether
\* it came back Ok.
ReturnNoted ==
    /\ pc = "returned"
    /\ pc' = "idle"
    /\ op' = NoOp
    /\ events' = <<>>
    /\ result' = NoResult
    /\ last' = IF op.name = "get_channel"
               THEN Some([channel |-> op.args.channel, http |-> HttpCalls(events),
                          ok |-> IsOk(result)])
               ELSE None
    /\ UNCHANGED <<context, state, remote_roles, threads>>

\* The event pipeline, the cache's only writer: it stores and drops
\* entities.  It exists with the "state" feature only.
EventPipeline ==
    \E s \in CacheSnapshots :
        /\ state_enabled
        /\ pc = "idle"
        /\ s # state
        /\ state' = s
        /\ last' = None
        /\ UNCHANGED <<context, remote_roles, pc, op, events, result, threads>>

Init ==
    /\ channel_id \in {None} \cup {Some(c) : c \in ChannelIds}
    /\ login_type \in LoginTypes
    /\ state_enabled \in BOOLEAN
    /\ state = EmptyState
    /\ remote_roles = <<>>
    /\ pc = "idle"
    /\ op = NoOp
    /\ events = <<>>
    /\ result = NoResult
    /\ last = None
    /\ stack = [t \in Threads |-> <<>>]
    /\ panicked = {}
    /\ cache_lock = None
    /\ poisoned = FALSE
    /\ conn_lock = None
    /\ presence = Presence(None, "Online", FALSE)

Next ==
    \/ Ack
    \/ Ban
    \/ CreateRole
    \/ DeleteMessages
    \/ Dm
    \/ EditChannel
    \/ EditMessage
    \/ EditProfile
    \/ EditRole
    \/ GetChannel
    \/ GetChannels
    \/ GetMember
    \/ GetMessage
    \/ GetMessages
    \/ GetReactionUsers
    \/ Say
    \/ SendFile
    \/ SendMessage
    \/ Return
    \/ EventPipeline

Spec == Init /\ [][Next]_vars

(* ------------------------------------------------------------------ *)
(* The operations with a u8 argument, over every u8                    *)
(* ------------------------------------------------------------------ *)
BanU8 == BanWith(U8)
GetReactionUsersU8 == GetReactionUsersWith(U8)

NextU8 ==
    \/ BanU8
    \/ GetReactionUsersU8
    \/ Return

SpecU8 == Init /\ [][NextU8]_vars

(* ------------------------------------------------------------------ *)
(* get_messages, over every closure                                    *)
(* ------------------------------------------------------------------ *)
GetMessagesAll == GetMessagesWith(GetMessagesClosures)

NextQuery ==
    \/ GetMessagesAll
    \/ Return

SpecQuery == Init /\ [][NextQuery]_vars

(* ------------------------------------------------------------------ *)
(* The operations that consult the cache, call after call              *)
(* ------------------------------------------------------------------ *)
NextCache ==
    \/ EditChannel
    \/ EditRole
    \/ GetChannel
    \/ GetChannels
    \/ GetMember
    \/ ReturnNoted
    \/ EventPipeline

SpecCache == Init /\ [][NextCache]_vars

(* ------------------------------------------------------------------ *)
(* The methods that take a lock, step by step, on several threads      *)
(* ------------------------------------------------------------------ *)
\* A method in progress: its name, its arguments, where it is, and what
\* the call it has made returned.
Frame(name, args) == [name |-> name, args |-> args, pc |-> "start", got |-> NoResult]

\* A caller's closure on a builder: it only sets fields (None), or it also
\* reads a channel through the Context while it runs (Some(channel)).
ReadingClosures == {None} \cup {Some(c) : c \in ChannelIds}

\* The presences a caller asks for with set_presence, and the games.
PresenceSample == {Presence(Some(1), "Idle", TRUE), Presence(None, "DoNotDisturb", FALSE)}
Games == {None, Some(2)}

\* The calls a thread may make.
Invocations ==
    {Frame("get_channel", [channel |-> c]) : c \in ChannelIds}
        \cup {Frame("get_channels", [guild |-> g]) : g \in GuildIds}
        \cup {Frame("get_member", [guild |-> g, user |-> u]) : g \in GuildIds, u \in UserIds}
        \cup {Frame("edit_channel", [channel |-> c, f |-> None]) : c \in ChannelIds}
        \cup {Frame("edit_role", [guild |-> g, role |-> r, f |-> f]) :
                 g \in GuildIds, r \in RoleIds, f \in ReadingClosures}
        \cup {Frame("set_game", [game |-> game]) : game \in Games}
        \cup {Frame("set_presence", p) : p \in PresenceSample}

\* The methods that start with STATE.lock().
CacheReads == {"get_channel", "get_channels", "get_member"}

Top(t) == stack[t][Len(stack[t])]
At(t, names, where) ==
    /\ stack[t] # <<>>
    /\ Top(t).name \in names
    /\ Top(t).pc = where
Goto(t, where) == stack' = [stack EXCEPT ![t][Len(stack[t])].pc = where]
Push(t, where, frame) ==
    stack' = [stack EXCEPT ![t] = Append([@ EXCEPT ![Len(@)].pc = where], frame)]

\* A method continues once the call it made has returned res.
Resume(frame, res) ==
    IF frame.name = "edit_channel"
    THEN [frame EXCEPT !.pc = "matching", !.got = res]
    ELSE [frame EXCEPT !.pc = "build"]

\* The method on top returns res: to the method that called it, or to the
\* thread's own code.
Finish(t, res) ==
    LET n == Len(stack[t])
    IN  stack' = [stack EXCEPT ![t] =
                     IF n = 1 THEN <<>>
                     ELSE Append(SubSeq(@, 1, n - 2), Resume(@[n - 1], res))]

\* The thread unwinds: the mutexes it holds are released, STATE's poisoned.
Panic(t) ==
    /\ stack' = [stack EXCEPT ![t] = <<>>]
    /\ panicked' = panicked \cup {t}
    /\ cache_lock' = IF cache_lock = Some(t) THEN None ELSE cache_lock
    /\ poisoned' = (poisoned \/ cache_lock = Some(t))
    /\ conn_lock' = IF conn_lock = Some(t) THEN None ELSE conn_lock

\* A thread calls a method.
Begin(t) ==
    \E frame \in Invocations :
        /\ stack[t] = <<>>
        /\ t \notin panicked
        /\ stack' = [stack EXCEPT ![t] = <<frame>>]
        /\ UNCHANGED <<context, state, caller, panicked, cache_lock, poisoned, conn_lock,
                       presence>>

\* STATE.lock().unwrap(): the thread waits until the mutex is free.
LockCache(t) ==
    /\ At(t, CacheReads \cup {"edit_role"}, "start")
    /\ state_enabled
    /\ cache_lock = None
    /\ ~poisoned
    /\ cache_lock' = Some(t)
    /\ Goto(t, "locked")
    /\ UNCHANGED <<context, state, caller, panicked, poisoned, conn_lock, presence>>

\* STATE.lock() on the thread that already holds the mutex: std::sync::Mutex
\* leaves this unspecified, the call does not return; it deadlocks or panics.
RelockCache(t) ==
    /\ At(t, CacheReads \cup {"edit_role"}, "start")
    /\ state_enabled
    /\ cache_lock = Some(t)
    /\ \/ /\ Goto(t, "deadlocked")
          /\ UNCHANGED <<panicked, cache_lock, poisoned, conn_lock>>
       \/ Panic(t)
    /\ UNCHANGED <<context, state, caller, presence>>

\* STATE.lock().unwrap() on the poisoned mutex panics.
LockPoisoned(t) ==
    /\ At(t, CacheReads \cup {"edit_role"}, "start")
    /\ state_enabled
    /\ cache_lock = None
    /\ poisoned
    /\ Panic(t)
    /\ UNCHANGED <<context, state, caller, presence>>

\* Without the "state" feature there is no lookup: a read goes to the
\* transport, edit_role to its closure.
SkipCache(t) ==
    /\ At(t, CacheReads \cup {"edit_role"}, "start")
    /\ ~state_enabled
    /\ Goto(t, IF Top(t).name = "edit_role" THEN "transform" ELSE "http")
    /\ UNCHANGED <<context, state, caller, panicked, cache_lock, poisoned, conn_lock, presence>>

\* find_channel, find_guild, find_member or find_role on the locked cache.
Lookup(t) ==
    /\ At(t, CacheReads \cup {"edit_role"}, "locked")
    /\ LET a == Top(t).args
           found == CASE Top(t).name = "get_channel" -> find_channel(state, a.channel)
                      [] Top(t).name = "get_channels" -> find_guild(state, a.guild)
                      [] Top(t).name = "get_member" -> find_member(state, a.guild, a.user)
                      [] Top(t).name = "edit_role" -> find_role(state, a.guild, a.role)
       IN  stack' = [stack EXCEPT ![t][Len(stack[t])] =
                        [@ EXCEPT !.pc = IF IsSome(found) THEN "found" ELSE "missed",
                                  !.got = IF IsSome(found) THEN Ok(Unwrap(found)) ELSE NoResult]]
    /\ UNCHANGED <<context, state, caller, panicked, cache_lock, poisoned, conn_lock, presence>>

\* return Ok(found.clone()): the guard is dropped on the way out.
ReturnCached(t) ==
    /\ At(t, CacheReads, "found")
    /\ cache_lock' = None
    /\ Finish(t, IF Top(t).name = "get_channels"
                 THEN Ok(Top(t).got.val.channels)
                 ELSE Top(t).got)
    /\ UNCHANGED <<context, state, caller, panicked, poisoned, conn_lock, presence>>

\* Nothing found: the guard is dropped where the lookup's block ends, and
\* the method goes on to the transport.
FallThrough(t) ==
    /\ At(t, CacheReads, "missed")
    /\ cache_lock' = None
    /\ Goto(t, "http")
    /\ UNCHANGED <<context, state, caller, panicked, poisoned, conn_lock, presence>>

\* edit_role, role not cached: return Err(RecordNotFound).
RoleNotFound(t) ==
    /\ At(t, {"edit_role"}, "missed")
    /\ cache_lock' = None
    /\ Finish(t, ClientErr0("RecordNotFound"))
    /\ UNCHANGED <<context, state, caller, panicked, poisoned, conn_lock, presence>>

\* edit_role, role cached: EditRole::new(role), inside the block that holds
\* the guard.
SeedFromRole(t) ==
    /\ At(t, {"edit_role"}, "found")
    /\ Goto(t, "transform")
    /\ UNCHANGED <<context, state, caller, panicked, cache_lock, poisoned, conn_lock, presence>>

\* edit_channel: try!(self.get_channel(channel_id)).
ReadTarget(t) ==
    /\ At(t, {"edit_channel"}, "start")
    /\ Push(t, "reading", Frame("get_channel", [channel |-> Top(t).args.channel]))
    /\ UNCHANGED <<context, state, caller, panicked, cache_lock, poisoned, conn_lock, presence>>

\* edit_channel: the match on what get_channel returned.
MatchChannel(t) ==
    /\ At(t, {"edit_channel"}, "matching")
    /\ LET got == Top(t).got
       IN  IF IsErr(got) THEN Finish(t, got)
           ELSE IF got.val.variant = "Group"
           THEN Finish(t, ClientErr("UnexpectedChannelType", "Group"))
           ELSE IF got.val.variant = "Private" \/ got.val.kind \notin {"Text", "Voice"}
           THEN Finish(t, ClientErr("UnexpectedChannelType", got.val.kind))
           ELSE Goto(t, "transform")
    /\ UNCHANGED <<context, state, caller, panicked, cache_lock, poisoned, conn_lock, presence>>

\* f(builder), for a closure that only sets fields.
RunTransform(t) ==
    /\ At(t, {"edit_channel", "edit_role"}, "transform")
    /\ Top(t).args.f = None
    /\ Goto(t, "build")
    /\ UNCHANGED <<context, state, caller, panicked, cache_lock, poisoned, conn_lock, presence>>

\* f(builder), for a closure that calls get_channel on the Context.
TransformReads(t) ==
    /\ At(t, {"edit_channel", "edit_role"}, "transform")
    /\ IsSome(Top(t).args.f)
    /\ Push(t, "in_transform", Frame("get_channel", [channel |-> Unwrap(Top(t).args.f)]))
    /\ UNCHANGED <<context, state, caller, panicked, cache_lock, poisoned, conn_lock, presence>>

\* edit_role's block that holds the guard, not ending before the transport
\* call.
BuildPayload_holding(t) ==
    /\ At(t, {"edit_channel", "edit_role"}, "build")
    /\ Goto(t, "http")
    /\ UNCHANGED <<context, state, caller, panicked, cache_lock, poisoned, conn_lock, presence>>

\* .0.build(); in edit_role the block that holds the guard ends here.
BuildPayload(t) ==
    /\ At(t, {"edit_channel", "edit_role"}, "build")
    /\ Goto(t, "http")
    /\ cache_lock' = IF cache_lock = Some(t) THEN None ELSE cache_lock
    /\ UNCHANGED <<context, state, caller, panicked, poisoned, conn_lock, presence>>

\* What the transport may answer a method's call with.
TransportAnswers(frame) ==
    IF frame.name = "get_channel"
    THEN Answers({PublicChannel(frame.args.channel, "Text"), Group(frame.args.channel)})
    ELSE Answers({frame.name})

\* The transport answers the call the method is waiting in; the method
\* returns that answer.
HttpRespond(t) ==
    /\ At(t, CacheReads \cup {"edit_channel", "edit_role"}, "http")
    /\ \E answer \in TransportAnswers(Top(t)) : Finish(t, answer)
    /\ UNCHANGED <<context, state, caller, panicked, cache_lock, poisoned, conn_lock, presence>>

\* The presence a method asks the Connection for: set_game asks for its
\* game, Online and not afk.
Requested(frame) ==
    IF frame.name = "set_game"
    THEN Presence(frame.args.game, "Online", FALSE)
    ELSE frame.args

\* set_game and set_presence entering the Connection without its mutex.
LockConnection_unlocked(t) ==
    /\ At(t, {"set_game", "set_presence"}, "start")
    /\ Goto(t, "conn_locked")
    /\ UNCHANGED <<context, state, caller, panicked, cache_lock, poisoned, conn_lock, presence>>

\* self.connection.lock().unwrap()
LockConnection(t) ==
    /\ At(t, {"set_game", "set_presence"}, "start")
    /\ conn_lock = None
    /\ conn_lock' = Some(t)
    /\ Goto(t, "conn_locked")
    /\ UNCHANGED <<context, state, caller, panicked, cache_lock, poisoned, presence>>

\* Connection::set_presence stores the game, the status and the afk flag.
WriteGame(t) ==
    /\ At(t, {"set_game", "set_presence"}, "conn_locked")
    /\ presence' = [presence EXCEPT !.game = Requested(Top(t)).game]
    /\ Goto(t, "wrote_game")
    /\ UNCHANGED <<context, state, caller, panicked, cache_lock, poisoned, conn_lock>>

WriteStatus(t) ==
    /\ At(t, {"set_game", "set_presence"}, "wrote_game")
    /\ presence' = [presence EXCEPT !.status = Requested(Top(t)).status]
    /\ Goto(t, "wrote_status")
    /\ UNCHANGED <<context, state, caller, panicked, cache_lock, poisoned, conn_lock>>

WriteAfk(t) ==
    /\ At(t, {"set_game", "set_presence"}, "wrote_status")
    /\ presence' = [presence EXCEPT !.afk = Requested(Top(t)).afk]
    /\ Goto(t, "wrote_afk")
    /\ UNCHANGED <<context, state, caller, panicked, cache_lock, poisoned, conn_lock>>

\* The guard is dropped at the end of the statement; the method returns.
UnlockConnection(t) ==
    /\ At(t, {"set_game", "set_presence"}, "wrote_afk")
    /\ conn_lock' = IF conn_lock = Some(t) THEN None ELSE conn_lock
    /\ Finish(t, Ok("unit"))
    /\ UNCHANGED <<context, state, caller, panicked, cache_lock, poisoned, presence>>

\* The event pipeline takes STATE's mutex to update the cache ...
PipelineLock ==
    /\ state_enabled
    /\ cache_lock = None
    /\ ~poisoned
    /\ cache_lock' = Some(Pipeline)
    /\ UNCHANGED <<context, state, caller, stack, panicked, poisoned, conn_lock, presence>>

\* ... stores or drops entities, and releases it.
PipelineUpdate ==
    \E s \in CacheSnapshots :
        /\ cache_lock = Some(Pipeline)
        /\ state' = s
        /\ cache_lock' = None
        /\ UNCHANGED <<context, caller, stack, panicked, poisoned, conn_lock, presence>>

InitLocks ==
    /\ Init
    /\ channel_id = None
    /\ login_type = "Bot"

CacheSteps(t) ==
    \/ LockCache(t)
    \/ RelockCache(t)
    \/ LockPoisoned(t)
    \/ SkipCache(t)
    \/ Lookup(t)
    \/ ReturnCached(t)
    \/ FallThrough(t)
    \/ RoleNotFound(t)
    \/ SeedFromRole(t)
    \/ ReadTarget(t)
    \/ MatchChannel(t)
    \/ RunTransform(t)
    \/ TransformReads(t)
    \/ BuildPayload(t)
    \/ HttpRespond(t)

ConnectionSteps(t) ==
    \/ LockConnection(t)
    \/ WriteGame(t)
    \/ WriteStatus(t)
    \/ WriteAfk(t)
    \/ UnlockConnection(t)

NextLocks ==
    \/ \E t \in Threads : Begin(t) \/ CacheSteps(t) \/ ConnectionSteps(t)
    \/ PipelineLock
    \/ PipelineUpdate

SpecLocks == InitLocks /\ [][NextLocks]_vars

(* ------------------------------------------------------------------ *)
(* Properties                                                          *)
(* ------------------------------------------------------------------ *)
Returned(name) == pc = "returned" /\ op.name = name

\* The only event of the call is one invocation of the endpoint.
OnlyCall(endpoint) ==
    /\ Len(events) = 1
    /\ events[1].kind = "http"
    /\ events[1].what = endpoint

\* C1: ban with delete_message_days in 0..7 passes validation and calls
\* the transport's ban exactly once with that value; with any greater u8
\* it returns DeleteMessageDaysAmount carrying exactly the value given,
\* and the transport is not called.
C1_BanDaysRule ==
    Returned("ban") =>
        IF op.args.days <= 7
        THEN /\ OnlyCall("ban_user")
             /\ events[1].args.days = op.args.days
             /\ result = events[1].answer
        ELSE /\ IsClientErr(result, "DeleteMessageDaysAmount")
             /\ result.data = Some(op.args.days)
             /\ HttpCalls(events) = 0

C1_Witness ==
    /\ Returned("ban")
    /\ op.args.days = U8Max
    /\ IsClientErr(result, "DeleteMessageDaysAmount")

\* The message-length rule on a call that sends content to an endpoint:
\* over the limit by k >= 1 it fails with MessageTooLong(k) and nothing is
\* sent; at or under the limit the endpoint is called once.
LengthRule(content, endpoint) ==
    IF content.chars > MESSAGE_CODE_LIMIT
    THEN /\ IsClientErr(result, "MessageTooLong")
         /\ result.data = Some(content.chars - MESSAGE_CODE_LIMIT)
         /\ HttpCalls(events) = 0
    ELSE /\ HttpCalls(events) = 1
         /\ CountHttp(events, endpoint) = 1
         /\ ~IsClientErr(result, "MessageTooLong")

GatedEndpoint(name) ==
    CASE name = "ack" -> "ack_message"
      [] name = "delete_messages" -> "delete_messages"
      [] name = "get_message" -> "get_message"

LastAnswer == events[Len(events)].answer

\* The last position of a channel id in a channel list.
LastIndex(list, id) ==
    CHOOSE i \in DOMAIN list :
        /\ list[i].id = id
        /\ \A j \in DOMAIN list : list[j].id = id => j <= i

\* C4: with the cache compiled in and holding the entity, get_channel,
\* get_member and get_channels return a clone of what is cached and the
\* transport is not called; with the cache absent or missing the key they
\* call the transport exactly once and return what it answered.
C4_CacheFirstRead ==
    /\ Returned("get_channel") =>
           LET cached == state.channels[op.args.channel]
           IN  IF state_enabled /\ IsSome(cached)
               THEN /\ result = Ok(Unwrap(cached))
                    /\ HttpCalls(events) = 0
               ELSE /\ HttpCalls(events) = 1
                    /\ CountHttp(events, "get_channel") = 1
                    /\ result = LastAnswer
    /\ Returned("get_member") =>
           LET g == state.guilds[op.args.guild]
               hit == /\ state_enabled
                      /\ IsSome(g)
                      /\ op.args.user \in DOMAIN Unwrap(g).members
           IN  IF hit
               THEN /\ result = Ok(Unwrap(g).members[op.args.user])
                    /\ HttpCalls(events) = 0
               ELSE /\ HttpCalls(events) = 1
                    /\ CountHttp(events, "get_member") = 1
                    /\ result = LastAnswer
    /\ Returned("get_channels") =>
           LET g == state.guilds[op.args.guild]
           IN  IF state_enabled /\ IsSome(g)
               THEN /\ result = Ok(Unwrap(g).channels)
                    /\ HttpCalls(events) = 0
               ELSE /\ HttpCalls(events) = 1
                    /\ CountHttp(events, "get_channels") = 1
                    /\ IsErr(LastAnswer) => result = LastAnswer
                    /\ IsOk(LastAnswer) =>
                           LET list == LastAnswer.val
                           IN  /\ IsOk(result)
                               /\ DOMAIN result.val = {list[i].id : i \in DOMAIN list}
                               /\ \A id \in DOMAIN result.val :
                                      result.val[id] = list[LastIndex(list, id)]

C4_Witness ==
    /\ Returned("get_channel")
    /\ state_enabled
    /\ IsSome(state.channels[op.args.channel])
    /\ result = Ok(Unwrap(state.channels[op.args.channel]))
    /\ HttpCalls(events) = 0

\* C5: when create_role's bare create succeeds and its follow-up edit
\* fails, the call returns the edit's failure, issues no delete, and the
\* bare role is still there remotely under the id the create returned.
C5_CreateRoleNoRollback ==
    (/\ Returned("create_role")
     /\ CountHttp(events, "edit_role") = 1
     /\ IsOk(events[1].answer)
     /\ IsErr(LastAnswer)) =>
        /\ result = LastAnswer
        /\ HttpCalls(events) = 2
        /\ CountHttp(events, "delete_role") = 0
        /\ \E i \in DOMAIN remote_roles :
               /\ remote_roles[i].id = events[1].answer.val.id
               /\ remote_roles[i].guild = op.args.guild
               /\ remote_roles[i].bare

C5_Witness ==
    /\ Returned("create_role")
    /\ CountHttp(events, "edit_role") = 1
    /\ IsOk(events[1].answer)
    /\ IsHttpErr(result)
    /\ remote_roles # <<>>

\* The channel an edit_channel call resolved: the cached one, or else the
\* one the transport answered get_channel with (None if that failed).
EditTarget ==
    LET cached == state.channels[op.args.channel]
    IN  IF state_enabled /\ IsSome(cached) THEN cached
        ELSE LET i == CHOOSE i \in DOMAIN events : events[i].what = "get_channel"
             IN  IF IsOk(events[i].answer) THEN Some(events[i].answer.val) ELSE None

\* A channel's actual subtype, and whether edit_channel refuses it.
Subtype(c) == IF c.variant = "Group" THEN "Group" ELSE c.kind
NotEditable(c) == c.variant # "Public" \/ c.kind \notin {"Text", "Voice"}

\* C6: edit_channel on a target that resolves to a private channel, a
\* group, or a guild channel that is neither text nor voice returns
\* UnexpectedChannelType carrying that channel's actual subtype; the
\* caller's closure is not applied, no payload is built and the
\* transport's edit_channel is not called.
C6_EditChannelSubtype ==
    (/\ Returned("edit_channel")
     /\ IsSome(EditTarget)
     /\ NotEditable(Unwrap(EditTarget))) =>
        /\ IsClientErr(result, "UnexpectedChannelType")
        /\ result.data = Some(Subtype(Unwrap(EditTarget)))
        /\ CountKind(events, "transform") = 0
        /\ CountKind(events, "build") = 0
        /\ CountHttp(events, "edit_channel") = 0

C6_Witness ==
    /\ Returned("edit_channel")
    /\ state_enabled
    /\ state.channels[op.args.channel] = Some(PrivateChannel(op.args.channel, "Private"))
    /\ IsClientErr(result, "UnexpectedChannelType")
    /\ result.data = Some("Private")

\* The five kinds of precondition error.
IsPrecondition(r) ==
    /\ r.tag = "Err"
    /\ r.source = "Client"
    /\ r.err \in {"DeleteMessageDaysAmount", "MessageTooLong", "NoChannelId",
                   "UnexpectedChannelType", "InvalidOperationAsUser"}

\* C7 as claimed: whenever a call returns a precondition error of any of
\* the five kinds, the transport was not called during that call.
C7_Original ==
    (pc = "returned" /\ IsPrecondition(result)) => HttpCalls(events) = 0

\* C7, amended: a call that returns a ban-days, message-length,
\* missing-channel or privilege error has not called the transport; a
\* call that returns UnexpectedChannelType (edit_channel) has not called it
\* when the target channel was in the cache, and has called it exactly
\* once, for the get_channel read that resolved the target, when it was not.
C7_PreconditionBeforeNetwork ==
    (pc = "returned" /\ IsPrecondition(result)) =>
        IF /\ result.err = "UnexpectedChannelType"
           /\ ~(state_enabled /\ IsSome(state.channels[op.args.channel]))
        THEN /\ HttpCalls(events) = 1
             /\ CountHttp(events, "get_channel") = 1
        ELSE HttpCalls(events) = 0

C7_Witness ==
    /\ Returned("edit_channel")
    /\ IsClientErr(result, "UnexpectedChannelType")
    /\ state.channels[op.args.channel] = None
    /\ CountHttp(events, "get_channel") = 1

\* C8: no transport invocation that carries a message body (from
\* send_message, say, dm, send_file or edit_message) has content of more
\* than 2000 code points.
C8_NoOversizedBody ==
    \A i \in DOMAIN events :
        (/\ events[i].kind = "http"
         /\ events[i].what \in {"send_message", "send_file", "edit_message"}
         /\ "content" \in DOMAIN events[i].args.body) =>
            events[i].args.body["content"].v.chars <= MESSAGE_CODE_LIMIT

\* C9: get_reaction_users sends the transport min(limit, 100) as the page
\* size for every supplied u8 limit and 50 when none is supplied; the
\* clamp raises no error, and the page size sent is always in 0..100.
C9_ReactionLimitClamp ==
    Returned("get_reaction_users") =>
        LET sent == events[1].args.limit
        IN  /\ OnlyCall("get_reaction_users")
            /\ sent \in 0..100
            /\ IsSome(op.args.limit) =>
                   /\ sent <= Unwrap(op.args.limit)
                   /\ sent = Unwrap(op.args.limit) \/ sent = 100
            /\ op.args.limit = None => sent = 50
            /\ result = events[1].answer

C9_Witness ==
    /\ Returned("get_reaction_users")
    /\ op.args.limit = Some(150)
    /\ events[1].args.limit = 100

\* C10: say on a Context without a channel_id returns NoChannelId and the
\* transport is not called, whatever the content; with a channel_id it
\* does what send_message to that channel with that content does: the
\* length rule, then one send of the default message with the content set.
C10_Say ==
    Returned("say") =>
        IF channel_id = None
        THEN /\ IsClientErr(result, "NoChannelId")
             /\ HttpCalls(events) = 0
        ELSE /\ LengthRule(op.args.content, "send_message")
             /\ HttpCalls(events) = 1 =>
                    /\ LET sent == events[Len(events)]
                       IN  /\ sent.args.channel = Unwrap(channel_id)
                           /\ sent.args.body =
                                  Apply("content" :> String(op.args.content),
                                        CreateMessage_default)
                    /\ result = LastAnswer

C10_Witness ==
    /\ Returned("say")
    /\ channel_id = None
    /\ op.args.content.chars > MESSAGE_CODE_LIMIT
    /\ IsClientErr(result, "NoChannelId")

\* C11: edit_role with the cache compiled in.  If the cache does not hold
\* the (guild, role) pair the call returns RecordNotFound at once: the
\* caller's transform is not applied and the transport is not invoked.
\* If the cache holds it, the builder is seeded from the cached role, the
\* transform is applied, and the transport's edit_role is invoked exactly
\* once, with the transformed seed, and its answer is returned.
C11_EditRoleCachePolicy ==
    (Returned("edit_role") /\ state_enabled) =>
        LET g == state.guilds[op.args.guild]
            cached == IsSome(g) /\ op.args.role \in DOMAIN Unwrap(g).roles
        IN  IF ~cached
            THEN /\ IsClientErr(result, "RecordNotFound")
                 /\ CountKind(events, "transform") = 0
                 /\ CountKind(events, "seed") = 0
                 /\ HttpCalls(events) = 0
            ELSE LET seed == EditRole_new(Unwrap(g).roles[op.args.role])
                 IN  /\ Len(events) = 5
                     /\ events[1].kind = "cache"
                     /\ events[2] = Seed("EditRole", seed)
                     /\ events[3] = Transform("EditRole")
                     /\ events[4] = Build("EditRole")
                     /\ events[5].kind = "http" /\ events[5].what = "edit_role"
                     /\ events[5].args.guild = op.args.guild
                     /\ events[5].args.role = op.args.role
                     /\ events[5].args.body = Apply(op.args.f, seed)
                     /\ result = events[5].answer

\* The guild is cached, the role is not: RecordNotFound.
C11_Witness ==
    /\ Returned("edit_role")
    /\ state_enabled
    /\ IsSome(state.guilds[op.args.guild])
    /\ IsClientErr(result, "RecordNotFound")

\* C12: edit_profile first reads the current user from the transport and
\* never consults the cache.  If the read fails, its error is returned,
\* the transform is not applied and no edit call is issued.  Otherwise the
\* builder is seeded with the answer's avatar and username, and its email
\* only when present, the caller's transform is applied to that seed, and
\* the transport's edit_profile is called after the read with the result.
C12_EditProfileFreshRead ==
    Returned("edit_profile") =>
        /\ Len(events) >= 1
        /\ events[1].kind = "http" /\ events[1].what = "get_current_user"
        /\ CountKind(events, "cache") = 0
        /\ IF IsErr(events[1].answer)
           THEN /\ Len(events) = 1
                /\ result = events[1].answer
           ELSE LET user == events[1].answer.val
                    seed == [k \in {"avatar", "username"}
                                    \cup (IF IsSome(user.email) THEN {"email"} ELSE {}) |->
                                CASE k = "avatar" -> user.avatar
                                  [] k = "username" -> user.name
                                  [] k = "email" -> Unwrap(user.email)]
                IN  /\ Len(events) = 5
                    /\ events[2] = Seed("ObjectBuilder", seed)
                    /\ events[3] = Transform("EditProfile")
                    /\ events[4] = Build("EditProfile")
                    /\ events[5].kind = "http" /\ events[5].what = "edit_profile"
                    /\ events[5].args.body = Apply(op.args.f, seed)
                    /\ result = events[5].answer

\* The read fails with the cache compiled in: one call, its error returned.
C12_Witness ==
    /\ Returned("edit_profile")
    /\ state_enabled
    /\ Len(events) = 1
    /\ IsHttpErr(events[1].answer)
    /\ result = events[1].answer

\* C13: no operation writes to the cache.  Every call leaves the cache as
\* it found it, and what a fall-through read fetches is not stored: when a
\* get_channel for a channel has made one transport call and the event
\* pipeline has not updated the cache since, the next get_channel for the
\* same channel makes one transport call as well.
C13_NoCacheWrite ==
    /\ [][(pc' = "returned") => (state' = state)]_vars
    /\ []((/\ Returned("get_channel")
           /\ IsSome(last)
           /\ Unwrap(last).channel = op.args.channel
           /\ Unwrap(last).http = 1)
              => HttpCalls(events) = 1)

\* Two get_channel calls in a row for an uncached channel with the cache
\* compiled in: the first came back Ok from the transport, and the second
\* has called the transport again.
C13_Witness ==
    /\ Returned("get_channel")
    /\ state_enabled
    /\ IsSome(last)
    /\ Unwrap(last).channel = op.args.channel
    /\ Unwrap(last).http = 1
    /\ Unwrap(last).ok
    /\ HttpCalls(events) = 1
    /\ state.channels[op.args.channel] = None

\* C14: when the transport answers a call of an operation with a failure,
\* the operation returns exactly that failure and does not retry: within
\* one operation no endpoint is invoked twice, and no transport invocation
\* follows a failed one.
C14_FailureVerbatimNoRetry ==
    pc = "returned" =>
        \A i \in 1..Len(events) :
            events[i].kind = "http" =>
                /\ \A j \in (i + 1)..Len(events) :
                       events[j].kind = "http" =>
                           /\ events[j].what # events[i].what
                           /\ IsOk(events[i].answer)
                /\ IsErr(events[i].answer) =>
                       /\ IsHttpErr(result)
                       /\ result = events[i].answer

\* create_role: the create succeeded, the edit failed; the edit's failure
\* is the result and nothing was called after it.
C14_Witness ==
    /\ Returned("create_role")
    /\ Len(events) = 4
    /\ events[1].kind = "http" /\ IsOk(events[1].answer)
    /\ events[4].kind = "http" /\ IsHttpErr(events[4].answer)
    /\ result = events[4].answer

\* The place of a key in the query after limit.
QueryRank(key) == CASE key = "after" -> 1 [] key = "around" -> 2 [] key = "before" -> 3

\* C15: get_messages builds its query from the transformed builder: limit
\* is always present and first, with the builder's limit, or 50 when the
\* builder leaves it unset; after, around and before are each appended if
\* and only if the builder sets them, with the builder's value, always in
\* the order after, around, before; the query is sent in exactly one
\* transport read, whose answer is returned.
C15_GetMessagesQuery ==
    Returned("get_messages") =>
        /\ HttpCalls(events) = 1
        /\ Len(events) = 2
        /\ events[2].kind = "http" /\ events[2].what = "get_messages"
        /\ events[2].args.channel = op.args.channel
        /\ result = events[2].answer
        /\ LET set == op.args.f
               query == events[2].args.query
               rest == 2..Len(query)
           IN  /\ Len(query) >= 1
               /\ query[1].key = "limit"
               /\ query[1].value = (IF "limit" \in DOMAIN set THEN set["limit"] ELSE 50)
               /\ \A i \in rest : query[i].key \in {"after", "around", "before"}
               /\ \A k \in {"after", "around", "before"} :
                      (k \in DOMAIN set) <=> (\E i \in rest : query[i].key = k)
               /\ \A i \in rest : query[i].value = set[query[i].key]
               /\ \A i, j \in rest :
                      i < j => QueryRank(query[i].key) < QueryRank(query[j].key)

\* The builder sets after, around and before and leaves limit unset.
C15_Witness ==
    /\ Returned("get_messages")
    /\ DOMAIN op.args.f = {"after", "around", "before"}
    /\ Len(events) = 2
    /\ Len(events[2].args.query) = 4
    /\ events[2].args.query[1] = Param("limit", 50)
    /\ events[2].args.query[4].key = "before"

\* The fields edit_channel seeds its builder with for a guild channel.
SeededKeys(c) ==
    {"name", "position"} \cup (IF c.kind = "Text" THEN {"topic"} ELSE {"bitrate", "user_limit"})

\* C19: edit_channel on a guild text or voice channel seeds the builder
\* from the channel its cache-first read resolved: name and position
\* always, topic for a text channel, bitrate and user_limit for a voice
\* channel.  The payload sent is the caller's transform applied to that
\* seed, so every seeded field the transform does not set is sent again
\* with the resolved (cached, when cached) value.
C19_EditChannelSeed ==
    (/\ Returned("edit_channel")
     /\ IsSome(EditTarget)
     /\ ~NotEditable(Unwrap(EditTarget))) =>
        LET c == Unwrap(EditTarget)
            n == Len(events)
            seed == events[n - 3].args
            body == events[n].args.body
        IN  /\ n >= 4
            /\ events[n - 3].kind = "seed"
            /\ DOMAIN seed = SeededKeys(c)
            /\ \A k \in DOMAIN seed : seed[k] = c[k]
            /\ events[n - 2] = Transform("EditChannel")
            /\ events[n - 1] = Build("EditChannel")
            /\ events[n].kind = "http" /\ events[n].what = "edit_channel"
            /\ events[n].args.channel = op.args.channel
            /\ CountHttp(events, "edit_channel") = 1
            /\ DOMAIN body = SeededKeys(c) \cup DOMAIN op.args.f
            /\ \A k \in DOMAIN body :
                   body[k] = IF k \in DOMAIN op.args.f THEN op.args.f[k] ELSE c[k]
            /\ result = events[n].answer

\* A cached text channel edited by a closure that sets the name only: the
\* cached position and topic are sent again.
C19_Witness ==
    /\ Returned("edit_channel")
    /\ state_enabled
    /\ state.channels[op.args.channel] = Some(PublicChannel(op.args.channel, "Text"))
    /\ DOMAIN op.args.f = {"name"}
    /\ HttpCalls(events) = 1
    /\ events[Len(events)].args.body["topic"] = PublicChannel(op.args.channel, "Text").topic
    /\ events[Len(events)].args.body["name"] = op.args.f["name"]

\* Whether thread t is inside a transport call, in any method on its stack.
InTransport(t) == \E i \in DOMAIN stack[t] : stack[t][i].pc = "http"

\* C16: no operation invokes the transport while it holds the cache lock,
\* and none holds the cache lock and the connection lock at the same time,
\* however get_channel, get_channels, get_member, edit_channel, edit_role,
\* set_game and set_presence on several threads and the event pipeline
\* interleave.
C16_NoTransportUnderCacheLock ==
    \A t \in Threads :
        /\ cache_lock = Some(t) => ~InTransport(t)
        /\ ~(cache_lock = Some(t) /\ conn_lock = Some(t))

\* One thread's edit_role is in its transport call, having found the role
\* in the cache, while the pipeline holds the cache lock and the other
\* thread the connection lock.
C16_Witness ==
    \E t, u \in Threads :
        /\ t # u
        /\ state_enabled
        /\ At(t, {"edit_role"}, "http")
        /\ cache_lock = Some(Pipeline)
        /\ conn_lock = Some(u)

\* C17: the cache lock is held for a single point lookup only: it is
\* released as soon as the lookup's result is there, so no caller's
\* transform and no payload construction runs while a thread holds it.
C17_LockOnlyForLookup ==
    \A t \in Threads :
        cache_lock = Some(t) =>
            \A i \in DOMAIN stack[t] :
                stack[t][i].pc \notin {"transform", "in_transform", "build"}

\* The presences that are one call's complete triple, or the initial one.
CompletePresences ==
    {Presence(None, "Online", FALSE)}
        \cup PresenceSample
        \cup {Presence(game, "Online", FALSE) : game \in Games}

\* Whether thread t is inside Connection::set_presence.
InConnection(t) ==
    /\ stack[t] # <<>>
    /\ Top(t).name \in {"set_game", "set_presence"}
    /\ Top(t).pc \in {"conn_locked", "wrote_game", "wrote_status", "wrote_afk"}

\* C18: set_presence and set_game change the presence only while they hold
\* the connection lock, and are not in a transport call while they hold it.
\* When a call has stored its three fields the presence is exactly what it
\* asked for, Online and not afk for set_game; whenever the lock is free
\* the presence is the complete triple of one call, never a mix.
C18_PresenceExclusive ==
    /\ \A t \in Threads :
           /\ InConnection(t) => conn_lock = Some(t)
           /\ conn_lock = Some(t) => ~InTransport(t)
           /\ At(t, {"set_game", "set_presence"}, "wrote_afk") =>
                  presence = Requested(Top(t))
           /\ At(t, {"set_game"}, "wrote_afk") =>
                  /\ presence.game = Top(t).args.game
                  /\ presence.status = "Online"
                  /\ presence.afk = FALSE
    /\ conn_lock = None => presence \in CompletePresences

\* set_game has stored its triple over the one a set_presence had left,
\* while the other thread's set_presence waits for the lock.
C18_Witness ==
    \E t, u \in Threads :
        /\ t # u
        /\ At(t, {"set_game"}, "wrote_afk")
        /\ Top(t).args.game = Some(2)
        /\ presence = Presence(Some(2), "Online", FALSE)
        /\ conn_lock = Some(t)
        /\ At(u, {"set_presence"}, "start")

\* C20: every call returns to its caller: no thread ends up waiting
\* forever for a lock, or unwinding out of its call, whatever the
\* interleaving, also when the closure given to edit_role reads a channel
\* through the Context.
C20_EveryCallReturns ==
    \A t \in Threads :
        /\ t \notin panicked
        /\ \A i \in DOMAIN stack[t] : stack[t][i].pc # "deadlocked"
====
